---- MODULE Spec2Model ----
(***************************************************************************)
(* The USERMOD command of src/include/modules.h (lines 409-607): a         *)
(* registry of user attributes (host, nick, real, user), each with a       *)
(* syntax check and a mutator, the command handler CommandUserMod::Handle  *)
(* / ModifyUser, its routing descriptor, and ModuleUserMod::ReadConfig.    *)
(*                                                                         *)
(* Strings are sequences of one-character strings, so that formatting,     *)
(* case folding and per-character checks are computed, not assumed.        *)
(* C++ parameters[0], [1], [2] are parameters[1], [2], [3] here.           *)
(***************************************************************************)
EXTENDS Integers, Sequences, FiniteSets, TLC

VARIABLES
    users,          \* users[s][u]: server s's User object for user u
    attributes,     \* attributes[s]: CommandUserMod::attributes on server s
    validhostchars, \* validhostchars[s]: the static bitset, as a set of chars
    hostchars,      \* hostchars[s]: <hostname charmap="..."> in s's configuration
    Limits,         \* ServerInstance->Config->Limits
    AllowedPrivs,   \* AllowedPrivs[u]: the oper privileges granted to u
    net,            \* net[s]: forwarded invocations on their way to server s
    log,            \* log[id]: what the network did with client invocation id
    last            \* the most recent dispatch: its inputs and what it did

vars == <<users, attributes, validhostchars, hostchars, Limits, AllowedPrivs, net, log, last>>

---------------------------------------------------------------------------
(* Bounds *)

\* Client invocations in one behaviour.
MaxCmds == 2

\* Longest host value and charmap drawn in the host-validation specification.
MaxLen == 2

---------------------------------------------------------------------------
(* Strings *)

None == "none"

LowerLetters == <<"a","b","c","e","f","h","i","k","l","n","o","r","s","t","u">>
UpperLetters == <<"A","B","C","E","F","H","I","K","L","N","O","R","S","T","U">>

Range(f) == {f[i] : i \in DOMAIN f}

\* The lower-case letter of each upper-case letter.
LowerOf == [c \in Range(UpperLetters) |->
    LowerLetters[CHOOSE i \in DOMAIN UpperLetters : UpperLetters[i] = c]]

ToLowerChar(c) == IF c \in DOMAIN LowerOf THEN LowerOf[c] ELSE c

\* The upper-case letter of each lower-case letter.
UpperOf == [c \in Range(LowerLetters) |->
    UpperLetters[CHOOSE i \in DOMAIN LowerLetters : LowerLetters[i] = c]]

ToUpperChar(c) == IF c \in DOMAIN UpperOf THEN UpperOf[c] ELSE c

ToLower(str) == [i \in DOMAIN str |-> ToLowerChar(str[i])]

\* Strings over alphabet cs of length lo..hi.
StringsOver(cs, lo, hi) == UNION {[1..n -> cs] : n \in lo..hi}

sHost == <<"h","o","s","t">>
sNick == <<"n","i","c","k">>
sReal == <<"r","e","a","l">>
sUser == <<"u","s","e","r">>
sFrob == <<"f","r","o","b">>
sHos == <<"h","o","s">>
sUsermodSlash == <<"u","s","e","r","m","o","d","/">>
sSelf == <<"s","e","l","f">>
sOthers == <<"o","t","h","e","r","s">>

---------------------------------------------------------------------------
(* The network: two linked servers and their users *)

Servers == {"S1", "S2"}
UIDs == {"A", "B", "C"}

\* The server a user is connected to: IS_LOCAL(u) on server s is Home[u] = s.
Home == [u \in UIDs |-> IF u = "B" THEN "S2" ELSE "S1"]

REG_ALL == "REG_ALL"
REG_NICK == "REG_NICK"

\* C has sent NICK but has not completed registration; the network learns of
\* a user only once it is registered, so C exists on its own server alone.
InitialUser(u) ==
    [nick |-> IF u = "A" THEN <<"a">> ELSE IF u = "B" THEN <<"b","b">> ELSE <<"c">>,
     host |-> <<"a">>,
     real |-> <<"a">>,
     ident |-> <<"a">>,
     registered |-> IF u = "C" THEN REG_NICK ELSE REG_ALL]

InitialUsers ==
    [s \in Servers |->
        [u \in {v \in UIDs : Home[v] = s \/ InitialUser(v).registered = REG_ALL} |->
            InitialUser(u)]]

\* ServerInstance->FindNick on a server's user list.
FindNick(view, nick) ==
    IF \E u \in DOMAIN view : view[u].nick = nick
        THEN CHOOSE u \in DOMAIN view : view[u].nick = nick
        ELSE None

IS_LOCAL(s, target) == Home[target] = s

\* The nickname and ident grammars of the server core.
NameChars == Range(LowerLetters) \cup Range(UpperLetters)

IsNick(value) ==
    /\ Len(value) >= 1
    /\ Len(value) <= Limits.NickMax
    /\ \A i \in DOMAIN value : value[i] \in NameChars

IsIdent(value) ==
    /\ Len(value) >= 1
    /\ \A i \in DOMAIN value : value[i] \in NameChars

\* User::HasPrivPermission: the token is looked up in the oper's privileges.
HasPrivPermission(user, priv) ==
    \E t \in AllowedPrivs[user] : ToLower(t) = ToLower(priv)

---------------------------------------------------------------------------
(* Attribute descriptors *)

HostAttribute == "HostAttribute"
NickAttribute == "NickAttribute"
RealAttribute == "RealAttribute"
UserAttribute == "UserAttribute"

\* The loop of HostAttribute::SyntaxCheck from position i on.
RECURSIVE HostCharsFrom(_, _, _)
HostCharsFrom(s, value, i) ==
    IF i > Len(value) THEN TRUE
    ELSE IF value[i] \notin validhostchars[s] THEN FALSE
    ELSE HostCharsFrom(s, value, i + 1)

HostSyntaxCheck(s, value) ==
    IF Len(value) > Limits.MaxHost THEN FALSE
    ELSE HostCharsFrom(s, value, 1)

NickSyntaxCheck(value) == IsNick(value)

RealSyntaxCheck(value) == Len(value) <= Limits.MaxReal

UserSyntaxCheck(value) ==
    IF Len(value) > Limits.IdentMax THEN FALSE
    ELSE IsIdent(value)

SyntaxCheck(s, attrib, value) ==
    CASE attrib = HostAttribute -> HostSyntaxCheck(s, value)
      [] attrib = NickAttribute -> NickSyntaxCheck(value)
      [] attrib = RealAttribute -> RealSyntaxCheck(value)
      [] attrib = UserAttribute -> UserSyntaxCheck(value)

\* User::ChangeNick refuses a nick that another user of the server holds.
ChangeNick(view, target, value) ==
    IF \E u \in DOMAIN view : u # target /\ view[u].nick = value
        THEN view
        ELSE [view EXCEPT ![target].nick = value]

ChangeValueWrongField(view, attrib, target, value) ==
    CASE attrib = HostAttribute -> [view EXCEPT ![target].host = value]
      [] attrib = NickAttribute -> ChangeNick(view, target, value)
      [] attrib = RealAttribute -> [view EXCEPT ![target].real = value]
      [] attrib = UserAttribute -> [view EXCEPT ![target].real = value]

\* The field each descriptor's ChangeValue writes.
ChangeValue(view, attrib, target, value) ==
    CASE attrib = HostAttribute -> [view EXCEPT ![target].host = value]
      [] attrib = NickAttribute -> ChangeNick(view, target, value)
      [] attrib = RealAttribute -> [view EXCEPT ![target].real = value]
      [] attrib = UserAttribute -> [view EXCEPT ![target].ident = value]

---------------------------------------------------------------------------
(* The attribute registry: a flat_map ordered by irc::insensitive_swo *)

\* Two keys are the same key when neither orders before the other.
KeyEquiv(a, b) == ToLower(a) = ToLower(b)

End == <<"end()">>

AttributeFindExact(map, name) ==
    IF name \in DOMAIN map THEN name ELSE End

KeyPrefix(k, name) ==
    Len(name) <= Len(k) /\ ToLower(SubSeq(k, 1, Len(name))) = ToLower(name)

AttributeFindPrefix(map, name) ==
    IF \E k \in DOMAIN map : KeyPrefix(k, name)
        THEN CHOOSE k \in DOMAIN map : KeyPrefix(k, name)
        ELSE End

\* attributes.find(name): the key equivalent to name, or end().
AttributeFind(map, name) ==
    IF \E k \in DOMAIN map : KeyEquiv(k, name)
        THEN CHOOSE k \in DOMAIN map : KeyEquiv(k, name)
        ELSE End

\* attributes[name] = descriptor: insert, or replace the equivalent key's value.
Register(map, name, descriptor) ==
    IF AttributeFind(map, name) # End
        THEN [map EXCEPT ![AttributeFind(map, name)] = descriptor]
        ELSE (name :> descriptor) @@ map

EmptyMap == [k \in {} |-> HostAttribute]

\* The registrations of the constructor, in order.
ConstructAttributes ==
    Register(Register(Register(Register(EmptyMap,
        sHost, HostAttribute), sNick, NickAttribute), sReal, RealAttribute),
        sUser, UserAttribute)

---------------------------------------------------------------------------
(* ModuleUserMod::ReadConfig *)

DefaultCharmap ==
    UpperLetters \o LowerLetters \o <<".","-","_","/","0","1","2","3","4","5","6","7","8","9">>

\* The loop that sets one bit per character of the charmap.
RECURSIVE SetChars(_, _, _)
SetChars(bits, chars, i) ==
    IF i > Len(chars) THEN bits
    ELSE SetChars(bits \cup {chars[i]}, chars, i + 1)

ReadConfigNoReset(bits, chars) == SetChars(bits, chars, 1)

\* validhostchars.reset(), then the loop.
ReadConfig(bits, chars) == SetChars({}, chars, 1)

---------------------------------------------------------------------------
(* CommandUserMod *)

CMD_SUCCESS == "CMD_SUCCESS"
CMD_FAILURE == "CMD_FAILURE"

\* What the user is sent: WriteNumeric(NoSuchNick) or one of three notices.
ERR_NOSUCHNICK == "ERR_NOSUCHNICK"
NOTICE_ATTRIBUTE == "is not a valid user attribute"
NOTICE_PRIV == "oper privilege is required"
NOTICE_VALUE == "you specified is not valid"

Notice(kind, arg) == [kind |-> kind, arg |-> arg]

\* A dispatch that has done nothing yet.
NoOut(view) ==
    [result |-> CMD_FAILURE, notices |-> <<>>, target |-> None, looked |-> FALSE,
     attrib |-> None, priv |-> <<>>, privChecked |-> FALSE, checked |-> FALSE, value |-> <<>>,
     valid |-> FALSE, applied |-> FALSE, calls |-> <<>>, view |-> view]

WriteNoticeSilent(out, kind, arg) == out

\* source->WriteNotice(...) and user->WriteNumeric(...): one more message to
\* the user who sent the command.
WriteNotice(out, kind, arg) ==
    [out EXCEPT !.notices = Append(@, Notice(kind, arg))]

PrivFormatOthers(attribute, source, target) ==
    sUsermodSlash \o attribute \o <<"-">> \o sOthers

\* InspIRCd::Format("usermod/%s-%s", attribute, source == target ? "self" : "others")
PrivFormat(attribute, source, target) ==
    sUsermodSlash \o attribute \o <<"-">> \o (IF source = target THEN sSelf ELSE sOthers)

TargetLocalAlways(s, target) == TRUE

TargetRemote(s, target) == ~IS_LOCAL(s, target)

\* if (IS_LOCAL(target))
TargetLocal(s, target) == IS_LOCAL(s, target)

ModifyUser(s, view, source, target, attribute, value) ==
    LET base == [NoOut(view) EXCEPT !.target = target, !.looked = TRUE]
        iter == AttributeFind(attributes[s], attribute)
    IN  IF iter = End
        THEN WriteNotice(base, NOTICE_ATTRIBUTE, attribute)
        ELSE
        LET priv == PrivFormat(attribute, source, target)
            authed == [base EXCEPT !.attrib = attributes[s][iter],
                                   !.priv = priv, !.privChecked = TRUE]
        IN  IF ~HasPrivPermission(source, priv)
            THEN WriteNotice(authed, NOTICE_PRIV, priv)
            ELSE
            LET attrib == attributes[s][iter]
                ok == SyntaxCheck(s, attrib, value)
                checked == [authed EXCEPT !.checked = TRUE, !.value = value, !.valid = ok]
            IN  IF ok
                THEN WriteNotice(checked, NOTICE_VALUE, attribute)
                ELSE IF TargetLocal(s, target)
                THEN [checked EXCEPT !.result = CMD_SUCCESS, !.applied = TRUE,
                                     !.calls = Append(@, [attrib |-> attrib,
                                                target |-> target, value |-> value]),
                                     !.view = ChangeValue(view, attrib, target, value)]
                ELSE [checked EXCEPT !.result = CMD_SUCCESS]

TargetMissingOnly(view, target) == target = None

\* if (!target || target->registered != REG_ALL)
TargetMissing(view, target) ==
    target = None \/ view[target].registered # REG_ALL

Handle(s, view, user, parameters) ==
    IF Len(parameters) = 2
    THEN ModifyUser(s, view, user, user, parameters[1], parameters[2])
    ELSE
    LET target == FindNick(view, parameters[2])
    IN  IF TargetMissing(view, target)
        THEN WriteNotice(NoOut(view), ERR_NOSUCHNICK, parameters[2])
        ELSE ModifyUser(s, view, user, target, parameters[1], parameters[2])

GetRoutingFirst(nick, parameters) ==
    IF Len(parameters) = 3 THEN parameters[1] ELSE nick

\* ROUTE_UNICAST(parameters.size() == 3 ? parameters[1] : user->nick)
GetRouting(nick, parameters) ==
    IF Len(parameters) = 3 THEN parameters[2] ELSE nick

\* The server a unicast to this name goes to: the one hosting the name.
RouteTarget(view, name) ==
    IF FindNick(view, name) = None THEN None ELSE Home[FindNick(view, name)]

---------------------------------------------------------------------------
(* Actions *)

NoLast ==
    [n |-> 0, id |-> 0, server |-> None, source |-> None, parameters |-> <<>>,
     result |-> None, notices |-> <<>>, target |-> None, looked |-> FALSE,
     attrib |-> None, priv |-> <<>>, privChecked |-> FALSE, checked |-> FALSE, value |-> <<>>,
     valid |-> FALSE, applied |-> FALSE, calls |-> <<>>,
     routed |-> FALSE, routeName |-> <<>>, routeServer |-> None, forwardedTo |-> None]

\* Server s runs the command for invocation id: Handle, then, when it
\* succeeded, the routing of the invocation to the server GetRouting names.
\* pending is the network before anything this dispatch forwards.
Dispatch(s, user, parameters, id, pending, entry) ==
    \E out \in {Handle(s, users[s], user, parameters)} :
    \E routed \in {out.result = CMD_SUCCESS} :
    \E name \in {IF routed THEN GetRouting(out.view[user].nick, parameters) ELSE <<>>} :
    \E dest \in {IF routed THEN RouteTarget(out.view, name) ELSE None} :
    \E forward \in {routed /\ dest \notin {None, s}} :
        /\ users' = [users EXCEPT ![s] = out.view]
        /\ net' = IF forward
                    THEN [pending EXCEPT ![dest] =
                            Append(@, [id |-> id, source |-> user, parameters |-> parameters])]
                    ELSE pending
        /\ last' = [n |-> last.n + 1, id |-> id, server |-> s, source |-> user,
                    parameters |-> parameters,
                    result |-> out.result, notices |-> out.notices, target |-> out.target,
                    looked |-> out.looked, attrib |-> out.attrib, priv |-> out.priv,
                    privChecked |-> out.privChecked, checked |-> out.checked,
                    value |-> out.value, valid |-> out.valid, applied |-> out.applied,
                    calls |-> out.calls,
                    routed |-> routed, routeName |-> name, routeServer |-> dest,
                    forwardedTo |-> IF forward THEN dest ELSE None]
        /\ log' = [entry EXCEPT
                    ![id].ran = @ \cup
                        (IF out.checked
                            THEN {[server |-> s, parameters |-> parameters]} ELSE {}),
                    ![id].applied = @ \o
                        (IF out.applied
                            THEN <<[server |-> s, target |-> out.target]>> ELSE <<>>),
                    ![id].forwarded = @ \cup (IF forward THEN {s} ELSE {})]
        /\ UNCHANGED <<attributes, validhostchars, hostchars, Limits, AllowedPrivs>>

\* A local oper sends USERMOD to its server; at most limit invocations are made.
ClientCommand(user, parameters, limit) ==
    /\ Len(log) < limit
    /\ Dispatch(Home[user], user, parameters, Len(log) + 1, net,
            Append(log, [source |-> user, origin |-> Home[user],
                         parameters |-> parameters,
                         ran |-> {}, applied |-> <<>>, forwarded |-> {}]))

\* Server s receives the oldest invocation forwarded to it and runs it.
Deliver(s) ==
    /\ net[s] # <<>>
    /\ Dispatch(s, Head(net[s]).source, Head(net[s]).parameters, Head(net[s]).id,
            [net EXCEPT ![s] = Tail(@)], log)

\* Server s reloads its configuration, whose charmap is now chars.
Rehash(s, chars) ==
    /\ hostchars' = [hostchars EXCEPT ![s] = chars]
    /\ validhostchars' = [validhostchars EXCEPT ![s] = ReadConfig(@, chars)]
    /\ UNCHANGED <<users, attributes, Limits, AllowedPrivs, net, log, last>>

---------------------------------------------------------------------------
(* Specifications *)

PrivToken(attribute, scope) == sUsermodSlash \o attribute \o <<"-">> \o scope

AttributeNames == {sHost, sNick, sReal, sUser}

SelfPrivs == {PrivToken(a, sSelf) : a \in AttributeNames}
OthersPrivs == {PrivToken(a, sOthers) : a \in AttributeNames}

\* A is the oper who sends commands; at the start it is granted either the
\* privileges on itself or the privileges on others.
PrivConfigs ==
    {[u \in UIDs |-> IF u = "A" THEN ps ELSE {}] :
        ps \in {SelfPrivs, OthersPrivs}}

InitWith(limits, privs) ==
    /\ users = InitialUsers
    /\ attributes = [s \in Servers |-> ConstructAttributes]
    /\ hostchars = [s \in Servers |-> DefaultCharmap]
    /\ validhostchars = [s \in Servers |-> ReadConfig({}, DefaultCharmap)]
    /\ Limits \in limits
    /\ AllowedPrivs \in privs
    /\ net = [s \in Servers |-> <<>>]
    /\ log = <<>>
    /\ last = NoLast

\* The network: commands on the four attributes and on a name that is none,
\* aimed at oneself, at a remote user, at an unregistered user and at nobody.
\* Of the values, "a" passes every syntax check, "!" is no host, nick or ident
\* character, and "bb" is longer than a host, a real name or an ident may be.
NetLimits == {[MaxHost |-> 1, MaxReal |-> 1, IdentMax |-> 1, NickMax |-> 2]}
NetAttributes == AttributeNames \cup {sFrob}
NetParameters ==
    {<<a, v>> : a \in NetAttributes, v \in {<<"a">>, <<"!">>}}
        \cup {<<sHost, <<"b","b">>>>, <<sReal, <<"b","b">>>>}
        \cup {<<a, t, <<"!">>>> : a \in AttributeNames, t \in {<<"a">>, <<"b","b">>}}
        \cup {<<a, t, <<"a">>>> : a \in {sHost, sFrob}, t \in {<<"c">>, <<"!">>}}
        \cup {<<sFrob, <<"b","b">>, <<"!">>>>, <<sHos, <<"!">>>>, <<sHos, <<"a">>, <<"!">>>>}
NetCharmaps == {DefaultCharmap, <<"a">>}

Init == InitWith(NetLimits, PrivConfigs)

Next ==
    \/ \E p \in NetParameters : ClientCommand("A", p, MaxCmds)
    \/ \E s \in Servers : Deliver(s)
    \/ \E s \in Servers, cm \in NetCharmaps : Rehash(s, cm)

Spec == Init /\ [][Next]_vars

\* Host validation: one server, whose charmap is reloaded any number of times
\* and whose oper then sets its own host, under each maximum host length.
HostLimits ==
    {[MaxHost |-> h, MaxReal |-> 1, IdentMax |-> 1, NickMax |-> 2] : h \in 1..MaxLen}
HostValues == StringsOver({"a", "b", "!"}, 1, MaxLen + 1)
HostCharmaps == StringsOver({"a", "!"}, 0, MaxLen)

InitHost == InitWith(HostLimits, {[u \in UIDs |-> SelfPrivs]})

NextHost ==
    \/ \E v \in HostValues : ClientCommand("A", <<sHost, v>>, 1)
    \/ \E cm \in HostCharmaps : Rehash("S1", cm)

SpecHost == InitHost /\ [][NextHost]_vars

\* Attribute lookup: one command that names an attribute in some spelling.
CaseSpellings(r) ==
    {<<a, b, c, d>> : a \in {r[1], ToUpperChar(r[1])}, b \in {r[2], ToUpperChar(r[2])},
                      c \in {r[3], ToUpperChar(r[3])}, d \in {r[4], ToUpperChar(r[4])}}

OtherNames ==
    {sFrob, sHos, sHost \o <<"s">>, <<"h","a","s","t">>, <<"n","i","c">>, <<"u","s","e","r","s">>}

CaseNames == UNION {CaseSpellings(r) : r \in AttributeNames} \cup OtherNames

NextCase ==
    \E a \in CaseNames, v \in {<<"a">>, <<"!">>} : ClientCommand("A", <<a, v>>, 1)

SpecCase == Init /\ [][NextCase]_vars

---------------------------------------------------------------------------
(* The claims *)

\* The step is a dispatch: a client command or a delivered invocation.
DispatchStep == last'.n # last.n

\* name is reg with each letter in either case.
CaseVariation(name, reg) ==
    /\ Len(name) = Len(reg)
    /\ \A i \in DOMAIN reg : name[i] = reg[i] \/ name[i] = ToUpperChar(reg[i])

RegisteredName(name) == \E r \in AttributeNames : CaseVariation(name, r)

\* In view, nick names a user who is fully registered.
ResolvesRegistered(view, nick) ==
    \E u \in DOMAIN view : view[u].nick = nick /\ view[u].registered = REG_ALL

\* C1: a dispatch that reaches the syntax check applies the mutator only if
\* the check returned true, and one whose check returned false fails with the
\* invalid-value notice naming the attribute and applies nothing.
C1_ValidationPermitsMutation ==
    last.checked =>
        /\ last.applied => last.valid
        /\ ~last.valid =>
            /\ last.result = CMD_FAILURE
            /\ last.notices = <<Notice(NOTICE_VALUE, last.parameters[1])>>
            /\ ~last.applied

\* C2: the value that is checked and applied is the last parameter: the third
\* in the 3-argument form, the second in the 2-argument form, whose target is
\* the actor.
C2_ValueIsLastParameter ==
    last.checked =>
        /\ last.value = last.parameters[Len(last.parameters)]
        /\ Len(last.parameters) = 2 => last.target = last.source

ExpectedPriv(l) ==
    sUsermodSlash \o l.parameters[1] \o <<"-">>
        \o (IF l.target = l.source THEN <<"s","e","l","f">> ELSE <<"o","t","h","e","r","s">>)

\* C3: a dispatch with a registered attribute requires usermod/<attribute>-self
\* when the target is the actor and usermod/<attribute>-others otherwise; an
\* actor without it gets the privilege notice and a failure, no syntax check
\* runs and no user changes; nothing is checked or applied for an actor who
\* lacks the token.
C3_PrivilegeGate ==
    [][DispatchStep =>
        LET l == last' IN
        /\ (l.looked /\ RegisteredName(l.parameters[1])) => l.privChecked
        /\ l.privChecked => l.priv = ExpectedPriv(l)
        /\ (l.privChecked /\ ~HasPrivPermission(l.source, ExpectedPriv(l))) =>
            /\ l.result = CMD_FAILURE
            /\ l.notices = <<Notice(NOTICE_PRIV, ExpectedPriv(l))>>
            /\ ~l.checked
            /\ ~l.applied
            /\ users' = users
        /\ (l.checked \/ l.applied) => HasPrivPermission(l.source, ExpectedPriv(l))
    ]_vars

\* C3's case: the 3-argument form names the actor's own nick and the actor
\* lacks the -self token.
C3_Witness ==
    /\ Len(last.parameters) = 3
    /\ last.target = last.source
    /\ last.privChecked
    /\ ~HasPrivPermission(last.source, last.priv)
    /\ last.result = CMD_FAILURE

\* C4: a dispatch applies the mutator only to a user of its own server, and
\* when the target is a remote user the server's view of it does not change.
C4_NeverAppliesToRemote ==
    [][DispatchStep =>
        LET l == last' IN
        /\ l.applied => Home[l.target] = l.server
        /\ (l.target # None /\ Home[l.target] # l.server) =>
            users'[l.server][l.target] = users[l.server][l.target]
    ]_vars

\* C4's case: a remote target, and the privilege and syntax checks let the
\* command through.
C4_Witness ==
    /\ last.target # None
    /\ Home[last.target] # last.server
    /\ last.result = CMD_SUCCESS
    /\ ~last.applied

\* C5: for each invocation, no server both applied and forwarded it, it was
\* applied at most once, by the server of the target, which ran the privilege
\* and syntax checks itself on the parameters as the client sent them; and
\* what is in flight is those parameters.
C5_ApplyOnceAtOwner ==
    /\ \A id \in DOMAIN log :
        /\ \A i \in DOMAIN log[id].applied :
            /\ log[id].applied[i].server \notin log[id].forwarded
            /\ Home[log[id].applied[i].target] = log[id].applied[i].server
            /\ [server |-> log[id].applied[i].server,
                parameters |-> log[id].parameters] \in log[id].ran
        /\ Len(log[id].applied) <= 1
    /\ \A s \in Servers : \A i \in DOMAIN net[s] :
        /\ net[s][i].parameters = log[net[s][i].id].parameters
        /\ net[s][i].source = log[net[s][i].id].source

\* C5's case: an invocation that one server forwarded and the other applied.
C5_Witness ==
    \E id \in DOMAIN log :
        /\ log[id].forwarded = {log[id].origin}
        /\ Len(log[id].applied) = 1
        /\ log[id].applied[1].server # log[id].origin

\* C6: the invocation is routed to the server hosting parameters[1] (C++) in
\* the 3-argument form and the actor's nick in the 2-argument form; that is
\* the server of the target Handle resolved, and nothing is forwarded when
\* that is the server itself.
C6_RouteToTargetOwner ==
    last.routed =>
        /\ last.routeName =
            IF Len(last.parameters) = 3 THEN last.parameters[2]
            ELSE users[last.server][last.source].nick
        /\ last.routeServer = Home[last.target]
        /\ last.forwardedTo =
            IF Home[last.target] = last.server THEN None ELSE Home[last.target]

\* C6's case: a 3-argument command for a remote user is forwarded to its server.
C6_Witness ==
    /\ last.routed
    /\ Len(last.parameters) = 3
    /\ last.forwardedTo = "S2"

\* C7 as stated: every dispatch naming an unregistered attribute fails with the
\* unknown-attribute notice, whatever the target name.
C7_UnknownAttributeAlways ==
    (last.n > 0 /\ ~RegisteredName(last.parameters[1])) =>
        /\ last.result = CMD_FAILURE
        /\ last.notices = <<Notice(NOTICE_ATTRIBUTE, last.parameters[1])>>
        /\ ~last.privChecked
        /\ ~last.checked
        /\ ~last.applied

\* C7: a dispatch naming an unregistered attribute fails, checks no privilege,
\* runs no syntax check and changes no user; it sends the unknown-attribute
\* notice naming the attribute in the 2-argument form and when the target of
\* the 3-argument form is a fully registered user, and the no-such-nick
\* numeric otherwise.
C7_UnknownAttribute ==
    [][(DispatchStep /\ ~RegisteredName(last'.parameters[1])) =>
        LET l == last' IN
        /\ l.result = CMD_FAILURE
        /\ ~l.privChecked
        /\ ~l.checked
        /\ ~l.applied
        /\ users' = users
        /\ l.notices =
            IF Len(l.parameters) = 2 \/ ResolvesRegistered(users[l.server], l.parameters[2])
                THEN <<Notice(NOTICE_ATTRIBUTE, l.parameters[1])>>
                ELSE <<Notice(ERR_NOSUCHNICK, l.parameters[2])>>
    ]_vars

\* C7's case: an unregistered attribute in the 3-argument form with a target
\* that exists.
C7_Witness ==
    /\ last.n > 0
    /\ ~RegisteredName(last.parameters[1])
    /\ Len(last.parameters) = 3
    /\ last.target # None
    /\ last.notices = <<Notice(NOTICE_ATTRIBUTE, last.parameters[1])>>

\* C8: a 3-argument dispatch whose target name is no user, or a user not fully
\* registered, fails with the no-such-nick numeric for that name; no attribute
\* is looked up, no privilege or syntax is checked and no user changes.
C8_NoSuchTarget ==
    [][(/\ DispatchStep
        /\ Len(last'.parameters) = 3
        /\ ~ResolvesRegistered(users[last'.server], last'.parameters[2])) =>
        LET l == last' IN
        /\ l.result = CMD_FAILURE
        /\ l.notices = <<Notice(ERR_NOSUCHNICK, l.parameters[2])>>
        /\ ~l.looked
        /\ ~l.privChecked
        /\ ~l.checked
        /\ ~l.applied
        /\ users' = users
    ]_vars

\* C8's case: the name is the nick of a user who has not completed registration.
C8_Witness ==
    /\ Len(last.parameters) = 3
    /\ \E u \in DOMAIN users[last.server] :
        /\ users[last.server][u].nick = last.parameters[2]
        /\ users[last.server][u].registered # REG_ALL
    /\ last.notices = <<Notice(ERR_NOSUCHNICK, last.parameters[2])>>

DescriptorOf(r) ==
    CASE r = sHost -> HostAttribute
      [] r = sNick -> NickAttribute
      [] r = sReal -> RealAttribute
      [] r = sUser -> UserAttribute

\* C10: a lookup of host, nick, real or user in any spelling of upper and
\* lower case finds that attribute's descriptor and is not answered with the
\* unknown-attribute notice; any other name finds none and is.
C10_CaseInsensitiveLookup ==
    (last.n > 0 /\ last.looked) =>
        /\ \A r \in AttributeNames :
            CaseVariation(last.parameters[1], r) =>
                /\ last.attrib = DescriptorOf(r)
                /\ \A i \in DOMAIN last.notices : last.notices[i].kind # NOTICE_ATTRIBUTE
        /\ ~RegisteredName(last.parameters[1]) =>
            /\ last.attrib = None
            /\ last.notices = <<Notice(NOTICE_ATTRIBUTE, last.parameters[1])>>

\* C10's case: a registered name spelt with both cases finds its descriptor.
C10_Witness ==
    /\ last.looked
    /\ last.parameters[1] = <<"r","E","a","L">>
    /\ last.attrib = RealAttribute

\* C11: every dispatch that returns failure has sent the actor exactly one
\* message, the no-such-nick numeric or one of the three notices, and every
\* dispatch that returns success has sent none.
C11_OneNoticePerFailure ==
    last.n > 0 =>
        /\ last.result \in {CMD_SUCCESS, CMD_FAILURE}
        /\ last.result = CMD_FAILURE =>
            /\ Len(last.notices) = 1
            /\ last.notices[1].kind \in
                {ERR_NOSUCHNICK, NOTICE_ATTRIBUTE, NOTICE_PRIV, NOTICE_VALUE}
        /\ last.result = CMD_SUCCESS => last.notices = <<>>

\* C11's case: a dispatch that got as far as the syntax check and failed there.
C11_Witness ==
    /\ last.result = CMD_FAILURE
    /\ last.checked
    /\ Len(last.notices) = 1
    /\ last.notices[1].kind = NOTICE_VALUE

UserFields == {"nick", "host", "real", "ident", "registered"}

\* The user field that the attribute of this name stands for.
NamedField(name) ==
    CASE CaseVariation(name, sHost) -> "host"
      [] CaseVariation(name, sNick) -> "nick"
      [] CaseVariation(name, sReal) -> "real"
      [] CaseVariation(name, sUser) -> "ident"

\* C12: a dispatch that returns failure leaves every user on every server, the
\* attribute registry and the validation configuration as they were; one that
\* returns success on a target of its own server has called the mutator
\* exactly once, on that target, and nothing differs but, at most, the
\* target's field of the named attribute.
C12_AllOrNothing ==
    [][DispatchStep =>
        LET l == last' IN
        /\ <<attributes, validhostchars, hostchars, Limits>>'
                = <<attributes, validhostchars, hostchars, Limits>>
        /\ l.result = CMD_FAILURE =>
            /\ users' = users
            /\ l.calls = <<>>
        /\ (l.result = CMD_SUCCESS /\ Home[l.target] = l.server) =>
            /\ Len(l.calls) = 1
            /\ l.calls[1].target = l.target
            /\ \A s \in Servers : \A u \in DOMAIN users[s] : \A f \in UserFields :
                (users'[s][u][f] # users[s][u][f]) =>
                    /\ s = l.server
                    /\ u = l.target
                    /\ f = NamedField(l.parameters[1])
    ]_vars

\* C12's case: a successful change of the actor's own ident, which is no
\* longer what it was at the start.
C12_Witness ==
    /\ last.result = CMD_SUCCESS
    /\ Home[last.target] = last.server
    /\ Len(last.calls) = 1
    /\ NamedField(last.parameters[1]) = "ident"
    /\ users[last.server][last.target].ident = last.value
    /\ last.value # InitialUser(last.target).ident

====
